---------------------------- MODULE Spec2Model ----------------------------
(***************************************************************************)
(* Model of src/src/lambda_function.py: the Guardian-API-to-SQS lambda.    *)
(*                                                                         *)
(*   rate_limit(max_requests, period)   sliding-window limiter decorator    *)
(*   fetch_articles(search_term, date_from)   validate, GET, transform,     *)
(*                                             publish                     *)
(*   lambda_handler(event, context)     maps the outcome to an envelope     *)
(*                                                                         *)
(* Encoding of Python values.  A str is a sequence of characters (numbers  *)
(* for body text, one-character strings for search terms).  None is the    *)
(* string NoneValue where a str is expected (os.getenv).  A dict coming    *)
(* from JSON is a record of fixed shape that says which keys are present,  *)
(* so that TLC never has to compare values of different kinds.             *)
(***************************************************************************)
EXTENDS Integers, Sequences, FiniteSets, TLC

VARIABLES
    max_requests,      \* rate_limit parameter of the binding            (l.149)
    period,            \* rate_limit parameter of the binding            (l.149)
    now,               \* the clock datetime.now() reads                 (l.159)
    message_requests,  \* the window: times of accepted calls            (l.154)
    func_calls,        \* times at which the wrapped func was invoked    (l.174)
    lastCall,          \* outcome of the latest call through wrapper
    lastOp,            \* which operation ran last
    env,               \* os.environ as read by fetch_articles        (l.24-26)
    event,             \* the payload given to lambda_handler            (l.90)
    api,               \* what requests.get / raise_for_status / json do
    sendFailAt,        \* which sqs.send_message call raises (0: none)
    fetched,           \* what the latest fetch_articles call did
    response,          \* what the latest lambda_handler call returned
    threads,           \* where each concurrent call through wrapper stands
    interleaved,       \* two calls through wrapper have overlapped
    closure,           \* which rate_limit(...) call each decorated op closes over
    windows,           \* message_requests of each rate_limit(...) call  (l.154)
    op_calls,          \* times at which each decorated op's func was invoked
    lastOpCall         \* outcome of the latest call through a decorated op

limiterVars == <<max_requests, period, now, message_requests, func_calls,
                 lastCall>>
inputVars   == <<env, event, api, sendFailAt>>
handlerVars == <<fetched, response>>
threadVars  == <<threads, interleaved>>
decoVars    == <<closure, windows, op_calls, lastOpCall>>
vars        == <<limiterVars, lastOp, inputVars, handlerVars, threadVars,
                 decoVars>>

\* ------------------------------------------------------------------ bounds
MaxTime     == 3     \* the clock runs over 0..MaxTime
MaxRequests == 2     \* max_requests is drawn from 1..MaxRequests
MaxPeriod   == 2     \* period is drawn from 1..MaxPeriod
MaxResults  == 2     \* the API returns at most MaxResults records
MaxCalls    == 1     \* each concurrent caller makes at most MaxCalls calls

Min(a, b) == IF a < b THEN a ELSE b

\* ------------------------------------------------------------ rate_limit

\* l.162-165: [t for t in message_requests if now - t < period]
PruneSwapped(window, t_now, p) ==
    SelectSeq(window, LAMBDA req_time : req_time - t_now < p)

Prune(window, t_now, p) ==
    SelectSeq(window, LAMBDA req_time : t_now - req_time < p)

\* l.167: if len(message_requests) >= max_requests: raise
LimitReachedOff(window, n) == Len(window) > n
LimitReached(window, n) == Len(window) >= n

\* What the wrapped func does when invoked: it returns or it raises; the
\* wrapper passes either on unchanged (l.174).
FuncOutcomes == {"returned", "raised"}

\* lastCall: result of the call, the time it read, the window it found, and
\* whether the call before it was a rejected one.
NoCall == [result |-> "none", at |-> 0, before |-> <<>>,
           afterRejection |-> FALSE]

\* l.158-174: one call through the decorated function, run to completion.
WrapperRecordsRejected ==
    /\ LET pruned == Prune(message_requests, now, period) IN
         \E out \in FuncOutcomes :
           IF LimitReached(pruned, max_requests)
           THEN /\ message_requests' = Append(pruned, now)
                /\ func_calls' = func_calls
                /\ lastCall' = [result |-> "rate_limited", at |-> now,
                                before |-> message_requests,
                                afterRejection |->
                                    lastCall.result = "rate_limited"]
           ELSE /\ message_requests' = Append(pruned, now)
                /\ func_calls' = Append(func_calls, now)
                /\ lastCall' = [result |-> out, at |-> now,
                                before |-> message_requests,
                                afterRejection |->
                                    lastCall.result = "rate_limited"]
    /\ lastOp' = "wrapper"
    /\ UNCHANGED <<max_requests, period, now, inputVars, handlerVars,
                   threadVars, decoVars>>

WrapperRecordsAfterCall ==
    /\ LET pruned == Prune(message_requests, now, period) IN
         \E out \in FuncOutcomes :
           IF LimitReached(pruned, max_requests)
           THEN /\ message_requests' = pruned
                /\ func_calls' = func_calls
                /\ lastCall' = [result |-> "rate_limited", at |-> now,
                                before |-> message_requests,
                                afterRejection |->
                                    lastCall.result = "rate_limited"]
           ELSE /\ message_requests' = IF out = "raised" THEN pruned
                                       ELSE Append(pruned, now)
                /\ func_calls' = Append(func_calls, now)
                /\ lastCall' = [result |-> out, at |-> now,
                                before |-> message_requests,
                                afterRejection |->
                                    lastCall.result = "rate_limited"]
    /\ lastOp' = "wrapper"
    /\ UNCHANGED <<max_requests, period, now, inputVars, handlerVars,
                   threadVars, decoVars>>

Wrapper ==
    /\ LET pruned == Prune(message_requests, now, period) IN
         \E out \in FuncOutcomes :
           IF LimitReached(pruned, max_requests)
           THEN /\ message_requests' = pruned
                /\ func_calls' = func_calls
                /\ lastCall' = [result |-> "rate_limited", at |-> now,
                                before |-> message_requests,
                                afterRejection |->
                                    lastCall.result = "rate_limited"]
           ELSE /\ message_requests' = Append(pruned, now)
                /\ func_calls' = Append(func_calls, now)
                /\ lastCall' = [result |-> out, at |-> now,
                                before |-> message_requests,
                                afterRejection |->
                                    lastCall.result = "rate_limited"]
    /\ lastOp' = "wrapper"
    /\ UNCHANGED <<max_requests, period, now, inputVars, handlerVars,
                   threadVars, decoVars>>

\* l.149: the defaults of rate_limit (period in days)
DefaultMaxRequests == 50
DefaultPeriod == 1

\* Time passes between calls: datetime.now() (l.159) reads a later time.
Tick ==
    /\ now < MaxTime
    /\ now' = now + 1
    /\ lastOp' = "tick"
    /\ UNCHANGED <<max_requests, period, message_requests, func_calls,
                   lastCall, inputVars, handlerVars, threadVars, decoVars>>

\* l.154 and l.148-150: a fresh binding, its window empty.
InitLimiter ==
    /\ max_requests \in 1..MaxRequests
    /\ period \in 1..MaxPeriod
    /\ now = 0
    /\ message_requests = <<>>
    /\ func_calls = <<>>
    /\ lastCall = NoCall
    /\ lastOp = "init"

\* ------------------------------------- rate_limit, two concurrent calls

\* Two threads calling through the same decorated function.  wrapper holds
\* no lock, so a thread can be preempted between any two of its statements:
\* l.159 (read the clock), l.163-165 (build the pruned list), l.162 (store
\* it in message_requests), l.167 (check), l.173 (record), l.174 (call).
\* The comprehension of l.163-165 is a loop over the shared list, and a
\* thread can be preempted between two of its iterations as well: idx is
\* the position of its list iterator, the number of elements it has read.
Threads == {"A", "B"}

IdleThread ==
    [pc |-> "idle", now |-> 0, idx |-> 0, filtered |-> <<>>, calls |-> 0]

Goto(t, pc) == [threads EXCEPT ![t].pc = pc]

\* wrapper returns or raises: its frame, and the locals in it, are gone.
Leave(t) ==
    [threads EXCEPT ![t] = [IdleThread EXCEPT !.calls = threads[t].calls]]

\* What no statement of wrapper touches.
ThreadFrame ==
    /\ lastOp' = "thread"
    /\ UNCHANGED <<max_requests, period, now, lastCall, inputVars,
                   handlerVars, decoVars>>

\* l.159: now = datetime.now()
ReadClock(t) ==
    /\ threads[t].pc = "idle"
    /\ threads[t].calls < MaxCalls
    /\ threads' = [threads EXCEPT ![t] =
                      [pc |-> "filter", now |-> now, idx |-> 0,
                       filtered |-> <<>>, calls |-> @.calls + 1]]
    /\ interleaved' =
          (interleaved \/ \E u \in Threads \ {t} : threads[u].pc # "idle")
    /\ UNCHANGED <<message_requests, func_calls>>
    /\ ThreadFrame

\* l.163-165: one iteration of the list comprehension.  The iterator reads
\* the element at its position in message_requests as the list is at that
\* moment, and the element is kept when `now - req_time < period` (l.165);
\* when the position is past the end of the list the comprehension is over.
BuildPruned(t) ==
    /\ threads[t].pc = "filter"
    /\ threads' =
          IF threads[t].idx < Len(message_requests)
          THEN LET req_time == message_requests[threads[t].idx + 1]
               IN  [threads EXCEPT
                      ![t].idx = @ + 1,
                      ![t].filtered =
                          @ \o Prune(<<req_time>>, threads[t].now, period)]
          ELSE Goto(t, "store")
    /\ UNCHANGED <<message_requests, func_calls, interleaved>>
    /\ ThreadFrame

\* l.162: message_requests[:] = ...
StorePruned(t) ==
    /\ threads[t].pc = "store"
    /\ message_requests' = threads[t].filtered
    /\ threads' = [threads EXCEPT ![t].pc = "check", ![t].idx = 0,
                                 ![t].filtered = <<>>]
    /\ UNCHANGED <<func_calls, interleaved>>
    /\ ThreadFrame

\* l.167-171: the count check; raising ends the call
CheckLimit(t) ==
    /\ threads[t].pc = "check"
    /\ threads' = IF LimitReached(message_requests, max_requests)
                  THEN Leave(t)
                  ELSE Goto(t, "record")
    /\ UNCHANGED <<message_requests, func_calls, interleaved>>
    /\ ThreadFrame

\* l.173: message_requests.append(now)
RecordCall(t) ==
    /\ threads[t].pc = "record"
    /\ message_requests' = Append(message_requests, threads[t].now)
    /\ threads' = Goto(t, "call")
    /\ UNCHANGED <<func_calls, interleaved>>
    /\ ThreadFrame

\* l.174: return func(*args, **kwargs)
CallFunc(t) ==
    /\ threads[t].pc = "call"
    /\ func_calls' = Append(func_calls, threads[t].now)
    /\ threads' = Leave(t)
    /\ UNCHANGED <<message_requests, interleaved>>
    /\ ThreadFrame

InitThreads ==
    /\ threads = [t \in Threads |-> IdleThread]
    /\ interleaved = FALSE

\* ------------------------------- rate_limit, several decorated functions

\* Two functions f and g are decorated.  message_requests (l.154) is made
\* once per rate_limit(...) call and every wrapper the returned decorator
\* makes (l.156-176) closes over it.
Ops == {"f", "g"}
Closures == {"first", "second"}

\* @rate_limit(N, P) written above each function: two rate_limit calls
FreshPerFunction == [op \in Ops |-> IF op = "f" THEN "first" ELSE "second"]
\* limited = rate_limit(N, P); f = limited(f); g = limited(g)
OneDecoratorForAll == [op \in Ops |-> "first"]

NoOpCall == [op |-> "none", result |-> "none", at |-> 0]

\* l.158-174: one call through the decorated function op
CallOp(op) ==
    /\ LET c      == closure[op]
           pruned == Prune(windows[c], now, period)
       IN  \E out \in FuncOutcomes :
             IF LimitReached(pruned, max_requests)
             THEN /\ windows' = [windows EXCEPT ![c] = pruned]
                  /\ op_calls' = op_calls
                  /\ lastOpCall' = [op |-> op, result |-> "rate_limited",
                                    at |-> now]
             ELSE /\ windows' = [windows EXCEPT ![c] = Append(pruned, now)]
                  /\ op_calls' = [op_calls EXCEPT ![op] = Append(@, now)]
                  /\ lastOpCall' = [op |-> op, result |-> out, at |-> now]
    /\ lastOp' = "op"
    /\ UNCHANGED <<closure, limiterVars, inputVars, handlerVars, threadVars>>

InitDecorators ==
    /\ windows = [c \in Closures |-> <<>>]
    /\ op_calls = [op \in Ops |-> <<>>]
    /\ lastOpCall = NoOpCall

\* -------------------------------------------------------- Python values

NoneValue == "<None>"          \* os.getenv of an unset variable
PageSize == 10
RequestTimeout == 30
PreviewLimit == 1000

\* `not x` for x an Optional[str] read from the environment (l.28, l.37)
Falsy(x) == x = NoneValue \/ x = ""

\* A value found in the event payload: a key that is absent, a str, a JSON
\* null or a (non-zero) number.  A str is the sequence of the code points
\* of its characters (ord(c)): 32 is the space, 116 is "t".
Absent  == [t |-> "absent", s |-> <<>>]
Str(s)  == [t |-> "str", s |-> s]
PyNone  == [t |-> "null", s |-> <<>>]
PyInt   == [t |-> "int", s |-> <<>>]

\* bool(x) of such a value (l.34 `not search_term`, l.51 `if date_from`)
Truthy(x) ==
    CASE x.t = "str"  -> x.s # <<>>
      [] x.t = "int"  -> TRUE
      [] OTHER        -> FALSE

\* The characters str.strip() removes, those with c.isspace(): the ASCII
\* ones (tab, line feed, vertical tab, form feed, carriage return, the four
\* separators, space), NEL, the no-break space and the Unicode spaces.
Whitespace ==
    (9..13) \cup (28..32) \cup {133, 160, 5760} \cup (8192..8202)
        \cup {8232, 8233, 8239, 8287, 12288}

RECURSIVE LStrip(_)
LStrip(s) ==
    IF s # <<>> /\ Head(s) \in Whitespace THEN LStrip(Tail(s)) ELSE s

RECURSIVE RStrip(_)
RStrip(s) ==
    IF s # <<>> /\ s[Len(s)] \in Whitespace
    THEN RStrip(SubSeq(s, 1, Len(s) - 1))
    ELSE s

\* str.strip() (l.34)
Strip(s) == RStrip(LStrip(s))

\* An exception: its class and str(e).
Exc(cls, msg) == [cls |-> cls, msg |-> msg]
NoExc == Exc("", "")

\* The exception classes named in the model.  A bare name is the class of
\* that name in requests.exceptions (l.14) or, failing that, the builtin;
\* "json.JSONDecodeError" is the standard library's class, which is not the
\* class of the same name in requests.exceptions.
ExceptionClasses ==
    {"RequestException", "HTTPError", "ConnectionError", "Timeout",
     "URLRequired", "TooManyRedirects", "ChunkedEncodingError", "RetryError",
     "UnrewindableBodyError", "InvalidJSONError", "MissingSchema",
     "InvalidSchema", "InvalidURL", "InvalidHeader", "ContentDecodingError",
     "StreamConsumedError", "ProxyError", "SSLError", "ConnectTimeout",
     "ReadTimeout", "InvalidProxyURL", "JSONDecodeError",
     "json.JSONDecodeError", "ValueError", "TypeError", "KeyError",
     "AttributeError", "OSError", "ClientError", "Exception"}

\* cls.__bases__.  The builtins are given Exception as their only base: the
\* classes between them and Exception are none of those l.82 names.
Bases(cls) ==
    CASE cls = "BaseException" -> {}
      [] cls = "Exception" -> {"BaseException"}
      [] cls = "RequestException" -> {"OSError"}
      [] cls \in {"HTTPError", "ConnectionError", "Timeout", "URLRequired",
                  "TooManyRedirects", "ChunkedEncodingError", "RetryError",
                  "UnrewindableBodyError", "InvalidJSONError"} ->
            {"RequestException"}
      [] cls \in {"MissingSchema", "InvalidSchema", "InvalidURL",
                  "InvalidHeader"} ->
            {"RequestException", "ValueError"}
      [] cls = "ContentDecodingError" -> {"RequestException"}
      [] cls = "StreamConsumedError" -> {"RequestException", "TypeError"}
      [] cls \in {"ProxyError", "SSLError"} -> {"ConnectionError"}
      [] cls = "ConnectTimeout" -> {"ConnectionError", "Timeout"}
      [] cls = "ReadTimeout" -> {"Timeout"}
      [] cls = "InvalidProxyURL" -> {"InvalidURL"}
      [] cls = "JSONDecodeError" ->
            {"InvalidJSONError", "json.JSONDecodeError"}
      [] cls = "json.JSONDecodeError" -> {"ValueError"}
      [] OTHER -> {"Exception"}

\* issubclass(cls, base)
RECURSIVE IsSubclass(_, _)
IsSubclass(cls, base) ==
    cls = base \/ \E b \in Bases(cls) : IsSubclass(b, base)

\* The classes an `except RequestException` clause catches.
RequestExceptionClasses ==
    {cls \in ExceptionClasses : IsSubclass(cls, "RequestException")}

\* isinstance(e, (RequestException, Timeout)) (l.82)
IsRequestException(e) ==
    IsSubclass(e.cls, "RequestException") \/ IsSubclass(e.cls, "Timeout")

\* ------------------------------------------------------- raw API records

RequiredFields == {"webPublicationDate", "webTitle", "webUrl"}

\* A record of response.results.  keys: which of the required keys it has;
\* the value it holds under key k is <<k, id>>.  fields: the key is absent,
\* holds null, or holds a dict; bodyText (inside that dict): absent, null, a
\* list or a str, `body` being the characters (or the list's items).
RawArticle(id, keys, fields, bodyText, body) ==
    [id |-> id, keys |-> keys, fields |-> fields, bodyText |-> bodyText,
     body |-> body]

Text(n) == [i \in 1..n |-> i % 7]

RawArticles ==
    { RawArticle(1, RequiredFields, "absent", "absent", <<>>),
      RawArticle(2, RequiredFields, "dict", "absent", <<>>),
      RawArticle(3, RequiredFields, "dict", "str", Text(3)),
      RawArticle(4, RequiredFields, "dict", "str", Text(PreviewLimit + 1)),
      RawArticle(5, RequiredFields, "null", "absent", <<>>),
      RawArticle(6, RequiredFields, "dict", "null", <<>>),
      RawArticle(7, RequiredFields, "dict", "list", Text(2)),
      RawArticle(8, RequiredFields \ {"webPublicationDate"}, "dict", "str",
                 Text(3)),
      RawArticle(9, RequiredFields \ {"webTitle"}, "absent", "absent", <<>>),
      RawArticle(10, RequiredFields \ {"webUrl"}, "null", "absent", <<>>) }

\* l.67-70: all(field in article for field in [...])
HasRequiredFields(article) == \A field \in RequiredFields : field \in article.keys

\* l.63-64: article.get("fields", {}).get("bodyText", "")[:1000]
\* The result is [exc, value]: the exception raised, if any, else the value.
ContentPreview(article) ==
    CASE article.fields = "absent" ->
            [exc |-> NoExc, value |-> [t |-> "str", v |-> <<>>]]
      [] article.fields = "null" ->
            [exc |-> Exc("AttributeError",
                         "'NoneType' object has no attribute 'get'"),
             value |-> [t |-> "str", v |-> <<>>]]
      [] article.bodyText = "absent" ->
            [exc |-> NoExc, value |-> [t |-> "str", v |-> <<>>]]
      [] article.bodyText = "null" ->
            [exc |-> Exc("TypeError", "'NoneType' object is not subscriptable"),
             value |-> [t |-> "str", v |-> <<>>]]
      [] OTHER ->
            [exc |-> NoExc,
             value |-> [t |-> article.bodyText,
                        v |-> SubSeq(article.body, 1,
                                     Min(Len(article.body), PreviewLimit))]]

\* l.59-65: the dict built for one article
Normalized(article, preview) ==
    [webPublicationDate |-> <<"webPublicationDate", article.id>>,
     webTitle           |-> <<"webTitle", article.id>>,
     webUrl             |-> <<"webUrl", article.id>>,
     content_preview    |-> preview]

\* l.58-71: the list comprehension, left to right; it stops at the first
\* exception.  [exc, list].
RECURSIVE Transform(_)
Transform(articles) ==
    IF articles = <<>> THEN [exc |-> NoExc, list |-> <<>>]
    ELSE LET article == Head(articles)
             rest    == Transform(Tail(articles))
         IN  IF ~HasRequiredFields(article) THEN rest
             ELSE LET p == ContentPreview(article) IN
                  IF p.exc # NoExc THEN [exc |-> p.exc, list |-> <<>>]
                  ELSE IF rest.exc # NoExc THEN rest
                  ELSE [exc |-> NoExc,
                        list |-> <<Normalized(article, p.value)>> \o rest.list]

\* json.dumps of one normalized article (l.77): the text of an object, its
\* members in insertion order.
JsonDumps(article) ==
    << <<"webPublicationDate", article.webPublicationDate>>,
       <<"webTitle", article.webTitle>>,
       <<"webUrl", article.webUrl>>,
       <<"content_preview", article.content_preview>> >>

\* l.75-78: the keyword arguments of one send_message call
Message(queue_url, article) ==
    [QueueUrl |-> queue_url, MessageBody |-> JsonDumps(article)]

\* ------------------------------------------------------- fetch_articles

\* What one call of fetch_articles did: it returned `value` or raised `exc`;
\* requests: the params of each requests.get call made; attempted: the
\* messages send_message was called with; sent: those it accepted;
\* logged: the exception fetch_articles gave to logger.error (l.83, l.86).
Fetched(outcome, value, exc, requests, attempted, sent) ==
    [outcome |-> outcome, value |-> value, exc |-> exc,
     requests |-> requests, attempted |-> attempted, sent |-> sent,
     logged |-> NoExc]

NotCalled == Fetched("none", <<>>, NoExc, <<>>, <<>>, <<>>)

\* l.43-52: the query parameters
Params(search_term, date_from, api_key) ==
    [q |-> <<34>> \o search_term.s \o <<34>>,
     api_key |-> api_key,
     page_size |-> PageSize,
     order_by |-> "newest",
     show_fields |-> "bodyText",
     from_date |-> IF Truthy(date_from) THEN date_from ELSE Absent,
     timeout |-> RequestTimeout]

\* l.82-87: a RequestException is raised again, anything else gives [].
OnException(e, requests, attempted, sent) ==
    [(IF IsRequestException(e)
      THEN Fetched("raised", <<>>, e, requests, attempted, sent)
      ELSE Fetched("returned", <<>>, NoExc, requests, attempted, sent))
        EXCEPT !.logged = e]

\* l.57: response.json().get("response", {}).get("results", [])
\* [exc, articles]
ResultsOfNoDefaults(body) ==
    CASE body.shape = "not_dict" ->
            [exc |-> Exc("TypeError",
                         "list indices must be integers or slices, not str"),
             articles |-> <<>>]
      [] body.shape = "no_response" ->
            [exc |-> Exc("KeyError", "'response'"), articles |-> <<>>]
      [] body.shape = "response_null" ->
            [exc |-> Exc("TypeError", "'NoneType' object is not subscriptable"),
             articles |-> <<>>]
      [] body.shape = "no_results" ->
            [exc |-> Exc("KeyError", "'results'"), articles |-> <<>>]
      [] body.shape = "results_null" ->
            [exc |-> Exc("TypeError", "'NoneType' object is not iterable"),
             articles |-> <<>>]
      [] OTHER -> [exc |-> NoExc, articles |-> body.results]

ResultsOf(body) ==
    CASE body.shape = "not_dict" ->
            [exc |-> Exc("AttributeError",
                         "'list' object has no attribute 'get'"),
             articles |-> <<>>]
      [] body.shape = "no_response" -> [exc |-> NoExc, articles |-> <<>>]
      [] body.shape = "response_null" ->
            [exc |-> Exc("AttributeError",
                         "'NoneType' object has no attribute 'get'"),
             articles |-> <<>>]
      [] body.shape = "no_results" -> [exc |-> NoExc, articles |-> <<>>]
      [] body.shape = "results_null" ->
            [exc |-> Exc("TypeError", "'NoneType' object is not iterable"),
             articles |-> <<>>]
      [] OTHER -> [exc |-> NoExc, articles |-> body.results]

\* l.73-80: the publish loop over the normalized articles, the k-th
\* send_message raising when k = failAt, and the return.
PublishReturnsList(list, queue_url, failAt, requests) ==
    LET msgs == [i \in 1..Len(list) |-> Message(queue_url, list[i])] IN
    IF failAt \in 1..Len(list)
    THEN Fetched("returned", list, NoExc, requests,
                 SubSeq(msgs, 1, failAt), SubSeq(msgs, 1, failAt - 1))
    ELSE Fetched("returned", list, NoExc, requests, msgs, msgs)

PublishSkipsLast(list, queue_url, failAt, requests) ==
    LET msgs == [i \in 1..(Len(list) - 1) |-> Message(queue_url, list[i])] IN
    IF failAt \in 1..Len(msgs)
    THEN OnException(Exc("ClientError", "SendMessage failed"), requests,
                     SubSeq(msgs, 1, failAt), SubSeq(msgs, 1, failAt - 1))
    ELSE Fetched("returned", list, NoExc, requests, msgs, msgs)

PublishContinuesAfterFailure(list, queue_url, failAt, requests) ==
    LET msgs == [i \in 1..Len(list) |-> Message(queue_url, list[i])] IN
    IF failAt \in 1..Len(list)
    THEN OnException(Exc("ClientError", "SendMessage failed"), requests,
                     msgs,
                     SubSeq(msgs, 1, failAt - 1)
                         \o SubSeq(msgs, failAt + 1, Len(msgs)))
    ELSE Fetched("returned", list, NoExc, requests, msgs, msgs)

Publish(list, queue_url, failAt, requests) ==
    LET msgs == [i \in 1..Len(list) |-> Message(queue_url, list[i])] IN
    IF failAt \in 1..Len(list)
    THEN OnException(Exc("ClientError", "SendMessage failed"), requests,
                     SubSeq(msgs, 1, failAt), SubSeq(msgs, 1, failAt - 1))
    ELSE Fetched("returned", list, NoExc, requests, msgs, msgs)

\* l.54-87: the try block
TryBlockRetries(params, queue_url, a, failAt) ==
    IF a.stage # "ok"
    THEN OnException(a.exc, <<params, params>>, <<>>, <<>>)
    ELSE LET r == ResultsOf(a.body) IN
         IF r.exc # NoExc THEN OnException(r.exc, <<params>>, <<>>, <<>>)
         ELSE LET t == Transform(r.articles) IN
              IF t.exc # NoExc THEN OnException(t.exc, <<params>>, <<>>, <<>>)
              ELSE Publish(t.list, queue_url, failAt, <<params>>)

TryBlock(params, queue_url, a, failAt) ==
    LET requests == <<params>> IN
    IF a.stage # "ok"
    THEN OnException(a.exc, requests, <<>>, <<>>)
    ELSE LET r == ResultsOf(a.body) IN
         IF r.exc # NoExc THEN OnException(r.exc, requests, <<>>, <<>>)
         ELSE LET t == Transform(r.articles) IN
              IF t.exc # NoExc THEN OnException(t.exc, requests, <<>>, <<>>)
              ELSE Publish(t.list, queue_url, failAt, requests)

\* l.29-32, l.35, l.38-41: the errors of the three checks
MissingApiKey ==
    Exc("ValueError",
        "API key is missing. Please set the GUARDIAN_API_KEY environment variable.")
EmptySearchTerm == Exc("ValueError", "Search term cannot be empty")
MissingQueueUrl ==
    Exc("ValueError",
        "SQS queue URL is missing. Please set the SQS_QUEUE_URL environment variable.")

\* l.20-87
FetchArticlesQueueFirst(search_term, date_from, e, a, failAt) ==
    CASE Falsy(e.SQS_QUEUE_URL) ->
            Fetched("raised", <<>>,
                    MissingQueueUrl,
                    <<>>, <<>>, <<>>)
      [] Falsy(e.GUARDIAN_API_KEY) ->
            Fetched("raised", <<>>, MissingApiKey,
                    <<>>, <<>>, <<>>)
      [] ~Truthy(search_term) ->
            Fetched("raised", <<>>,
                    EmptySearchTerm,
                    <<>>, <<>>, <<>>)
      [] search_term.t # "str" ->
            Fetched("raised", <<>>,
                    Exc("AttributeError",
                        "'int' object has no attribute 'strip'"),
                    <<>>, <<>>, <<>>)
      [] Strip(search_term.s) = <<>> ->
            Fetched("raised", <<>>,
                    EmptySearchTerm,
                    <<>>, <<>>, <<>>)
      [] OTHER ->
            TryBlock(Params(search_term, date_from, e.GUARDIAN_API_KEY),
                     e.SQS_QUEUE_URL, a, failAt)

FetchArticles(search_term, date_from, e, a, failAt) ==
    CASE Falsy(e.GUARDIAN_API_KEY) ->
            Fetched("raised", <<>>, MissingApiKey,
                    <<>>, <<>>, <<>>)
      [] ~Truthy(search_term) ->
            Fetched("raised", <<>>,
                    EmptySearchTerm,
                    <<>>, <<>>, <<>>)
      [] search_term.t # "str" ->
            Fetched("raised", <<>>,
                    Exc("AttributeError",
                        "'int' object has no attribute 'strip'"),
                    <<>>, <<>>, <<>>)
      [] Strip(search_term.s) = <<>> ->
            Fetched("raised", <<>>,
                    EmptySearchTerm,
                    <<>>, <<>>, <<>>)
      [] Falsy(e.SQS_QUEUE_URL) ->
            Fetched("raised", <<>>,
                    MissingQueueUrl,
                    <<>>, <<>>, <<>>)
      [] OTHER ->
            TryBlock(Params(search_term, date_from, e.GUARDIAN_API_KEY),
                     e.SQS_QUEUE_URL, a, failAt)

\* ------------------------------------------------------- lambda_handler

\* "machine learning"
DefaultSearchTerm ==
    Str(<<109, 97, 99, 104, 105, 110, 101, 32,
          108, 101, 97, 114, 110, 105, 110, 103>>)

\* event.get(key, default) (l.94-95)
EventGet(ev, key, default) == IF ev[key].t = "absent" THEN default ELSE ev[key]

\* The envelope lambda_handler returns; body is the text json.dumps gives:
\* an array of objects, or an object with the member "error".
Response(statusCode, body) ==
    [raised |-> FALSE, exc |-> NoExc, statusCode |-> statusCode, body |-> body]
JsonArray(list) ==
    [kind |-> "array", items |-> [i \in 1..Len(list) |-> JsonDumps(list[i])],
     error |-> ""]
JsonError(msg) == [kind |-> "object", items |-> <<>>, error |-> msg]
NoBody == [kind |-> "none", items |-> <<>>, error |-> ""]
NoResponse == [raised |-> FALSE, exc |-> NoExc, statusCode |-> 0, body |-> NoBody]

\* l.97-102: the envelope for what fetch_articles did
EnvelopeHidesMessage(f) ==
    IF f.outcome = "returned"
    THEN Response(200, JsonArray(f.value))
    ELSE Response(500, JsonError("Internal Server Error"))

Envelope(f) ==
    IF f.outcome = "returned"
    THEN Response(200, JsonArray(f.value))
    ELSE Response(500, JsonError(f.exc.msg))

\* l.90-102: one invocation, run to completion, on the inputs of this run.
\* event.get (l.94) is outside the try: an event that is no dict makes the
\* handler itself raise.
LambdaHandler ==
    /\ IF ~event.is_dict
       THEN /\ fetched' = NotCalled
            /\ response' = [raised |-> TRUE,
                            exc |-> Exc("AttributeError",
                                "'NoneType' object has no attribute 'get'"),
                            statusCode |-> 0, body |-> NoBody]
       ELSE LET f == FetchArticles(EventGet(event, "search_term",
                                            DefaultSearchTerm),
                                   EventGet(event, "date_from", PyNone),
                                   env, api, sendFailAt)
            IN  /\ fetched' = f
                /\ response' = Envelope(f)
    /\ lastOp' = "lambda_handler"
    /\ UNCHANGED <<limiterVars, inputVars, threadVars, decoVars>>

\* ------------------------------------------------------------- the inputs

ApiKeys   == {NoneValue, "", "mock-api-key"}
QueueUrls == {NoneValue, "", "http://mock-sqs-url.com"}
Envs == [GUARDIAN_API_KEY : ApiKeys, SQS_QUEUE_URL : QueueUrls]
EnvOk == [GUARDIAN_API_KEY |-> "mock-api-key",
          SQS_QUEUE_URL |-> "http://mock-sqs-url.com"]

Event(is_dict, search_term, date_from) ==
    [is_dict |-> is_dict, search_term |-> search_term, date_from |-> date_from]

\* "", "  ", "t", " t ", "\r", "\f" and an em space, a no-break space
\* and "t" and a carriage return
SearchTerms ==
    {Absent, Str(<<>>), Str(<<32, 32>>), Str(<<116>>), Str(<<32, 116, 32>>),
     Str(<<13>>), Str(<<12, 8195>>), Str(<<160, 116, 13>>), PyNone, PyInt}
Events ==
    {Event(TRUE, t, Absent) : t \in SearchTerms}
    \cup {Event(TRUE, Str(<<116>>), Str(<<50, 48, 50, 52>>)),
          Event(FALSE, Absent, Absent)}
EventsOk ==
    {Event(TRUE, Absent, Absent),
     Event(TRUE, Str(<<32, 116, 32>>), Absent),
     Event(TRUE, Str(<<160, 116, 13>>), Absent),
     Event(TRUE, Str(<<116>>), Str(<<50, 48, 50, 52>>))}

\* What the API does: requests.get raises (stage "get"), raise_for_status
\* raises, response.json() raises, or the body parses (stage "ok").
Body(shape, results) == [shape |-> shape, results |-> results]
Api(stage, e, body) == [stage |-> stage, exc |-> e, body |-> body]

\* A body that is no JSON makes response.json() raise the JSONDecodeError of
\* requests.exceptions or, with a requests older than 2.27, the standard
\* library's: the sources pin no version, so both are outcomes.
ApiFailures ==
    {Api("get", Exc("Timeout", "Request timed out"), Body("none", <<>>)),
     Api("get", Exc("ConnectionError", "Connection refused"), Body("none", <<>>)),
     Api("get", Exc("RequestException", "API Error"), Body("none", <<>>)),
     Api("get", Exc("ReadTimeout", "Read timed out."), Body("none", <<>>)),
     Api("get", Exc("ConnectTimeout", "Connection timed out"),
         Body("none", <<>>)),
     Api("get", Exc("SSLError", "certificate verify failed"),
         Body("none", <<>>)),
     Api("get", Exc("Exception", "Generic error"), Body("none", <<>>)),
     Api("raise_for_status", Exc("HTTPError", "404 Client Error"),
         Body("none", <<>>)),
     Api("json", Exc("JSONDecodeError", "Expecting value"), Body("none", <<>>)),
     Api("json", Exc("json.JSONDecodeError", "Expecting value"),
         Body("none", <<>>)),
     Api("json", Exc("ValueError", "Expecting value"), Body("none", <<>>))}

ResultLists == UNION {[1..n -> RawArticles] : n \in 0..MaxResults}

ApiBodies ==
    {Api("ok", NoExc, Body(shape, <<>>)) :
        shape \in {"not_dict", "no_response", "response_null", "no_results",
                   "results_null"}}
    \cup {Api("ok", NoExc, Body("results", l)) : l \in ResultLists}

ApiOutcomes == ApiFailures \cup ApiBodies

WellFormed == RawArticle(3, RequiredFields, "dict", "str", Text(3))

ApiSample ==
    {Api("get", Exc("Timeout", "Request timed out"), Body("none", <<>>)),
     Api("get", Exc("Exception", "Generic error"), Body("none", <<>>)),
     Api("ok", NoExc, Body("results", <<WellFormed>>))}

\* Every environment and event, on a sample of API outcomes.
InputsPreconditions ==
    /\ env \in Envs
    /\ event \in Events
    /\ api \in ApiSample
    /\ sendFailAt \in {0, 1}

\* Every API outcome and failing send, the preconditions passing.
InputsPipeline ==
    /\ env = EnvOk
    /\ event \in EventsOk
    /\ api \in ApiOutcomes
    /\ sendFailAt \in 0..MaxResults

\* ------------------------------------------------------- specifications

\* The limiter binding and the handler side by side in one process.
Init ==
    /\ InitLimiter
    /\ env = EnvOk
    /\ event = Event(TRUE, Str(<<116>>), Absent)
    /\ api \in ApiSample
    /\ sendFailAt = 0
    /\ fetched = NotCalled
    /\ response = NoResponse
    /\ InitThreads
    /\ closure = FreshPerFunction
    /\ InitDecorators

Next == Tick \/ Wrapper \/ LambdaHandler

Spec == Init /\ [][Next]_vars

\* One invocation of the handler on each input.
InitFetch ==
    /\ max_requests = DefaultMaxRequests
    /\ period = DefaultPeriod
    /\ now = 0
    /\ message_requests = <<>>
    /\ func_calls = <<>>
    /\ lastCall = NoCall
    /\ lastOp = "init"
    /\ InputsPreconditions \/ InputsPipeline
    /\ fetched = NotCalled
    /\ response = NoResponse
    /\ InitThreads
    /\ closure = FreshPerFunction
    /\ InitDecorators

NextFetch == LambdaHandler

SpecFetch == InitFetch /\ [][NextFetch]_vars

\* The inputs of the handler, when it is not what a specification is about.
InputsFixed ==
    /\ env = EnvOk
    /\ event = Event(TRUE, Str(<<116>>), Absent)
    /\ api = Api("ok", NoExc, Body("results", <<WellFormed>>))
    /\ sendFailAt = 0
    /\ fetched = NotCalled
    /\ response = NoResponse

\* The window that calls made one after the other have left behind at the
\* time of the last of them: at most n times in order, all of them within
\* the period p of the last.  The clock is at 0 at the first of them.
PriorWindows(n, p) ==
    {w \in UNION {[1..len -> 0..MaxTime] : len \in 0..n} :
        /\ \A i \in 1..(Len(w) - 1) : w[i] <= w[i + 1]
        /\ w # <<>> => (w[1] = 0 /\ w[Len(w)] - w[1] < p)}

\* Two threads call through one decorated function while time passes; the
\* function has been called before, by one thread.
InitThreaded ==
    /\ max_requests \in 1..MaxRequests
    /\ period \in 1..MaxPeriod
    /\ message_requests \in PriorWindows(max_requests, period)
    /\ now = IF message_requests = <<>> THEN 0
             ELSE message_requests[Len(message_requests)]
    /\ func_calls = message_requests
    /\ lastCall = NoCall
    /\ lastOp = "init"
    /\ InitThreads
    /\ closure = FreshPerFunction
    /\ InitDecorators
    /\ InputsFixed

NextThreaded ==
    \/ Tick
    \/ \E t \in Threads : ReadClock(t)
    \/ \E t \in Threads : BuildPruned(t)
    \/ \E t \in Threads : StorePruned(t)
    \/ \E t \in Threads : CheckLimit(t)
    \/ \E t \in Threads : RecordCall(t)
    \/ \E t \in Threads : CallFunc(t)

SpecThreaded == InitThreaded /\ [][NextThreaded]_vars

\* Two decorated functions, decorated in either way, called in any order.
InitDecorated ==
    /\ InitLimiter
    /\ InitThreads
    /\ closure \in {FreshPerFunction, OneDecoratorForAll}
    /\ InitDecorators
    /\ InputsFixed

NextDecorated == Tick \/ \E op \in Ops : CallOp(op)

SpecDecorated == InitDecorated /\ [][NextDecorated]_vars

\* ------------------------------------------------------------ properties

Accepted == lastCall.result \in FuncOutcomes
Rejected == lastCall.result = "rate_limited"

\* The calls of the wrapped func whose time lies in the window [t, t + p).
CallsWithin(t, p) ==
    {i \in DOMAIN func_calls : t <= func_calls[i] /\ func_calls[i] < t + p}

\* C1: through one binding with max_requests = N >= 1 and period = P, called
\* at non-decreasing times, at most N invocations of the wrapped func have
\* their call time inside any window [t, t + P): a further call inside such
\* a window is refused.
C1_AtMostMaxRequestsPerWindow ==
    \A t \in 0..MaxTime : Cardinality(CallsWithin(t, period)) <= max_requests

\* C1 witness: a call was refused while max_requests accepted calls lay
\* within one period before it.
C1_Witness ==
    /\ lastOp = "wrapper"
    /\ Rejected
    /\ Cardinality({i \in DOMAIN func_calls :
                       lastCall.at - func_calls[i] < period}) = max_requests

\* The limiter's window, as a call made now would find it, is full.
WindowFull ==
    Len(SelectSeq(message_requests, LAMBDA t : now - t < period))
        >= max_requests

\* C2: once the limiter's window holds max_requests entries within the
\* period, an invocation of lambda_handler issues no HTTP request and sends
\* no queue message.
C2_HandlerBehindLimiter ==
    (lastOp = "lambda_handler" /\ WindowFull)
        => (fetched.requests = <<>> /\ fetched.attempted = <<>>)

\* C3: a call that finds max_requests entries left after pruning is refused,
\* does not invoke the wrapped func and records nothing: the window after it
\* is the pruned window.
C3_RejectedRecordsNothing ==
    [][ (lastOp' = "wrapper" /\ WindowFull)
          => /\ lastCall'.result = "rate_limited"
             /\ func_calls' = func_calls
             /\ message_requests' =
                    SelectSeq(message_requests, LAMBDA t : now - t < period)
      ]_vars

\* C3 witness: a refused call, made later than the oldest recorded one.
C3_Witness ==
    /\ lastOp = "wrapper"
    /\ Rejected
    /\ message_requests # <<>>
    /\ lastCall.at > message_requests[1]

\* C4: with the window full, a call made more than period after the oldest
\* recorded call is accepted: the wrapped func is invoked, the call time is
\* recorded and no entry as old as the period stays in the window; refused
\* attempts made before it change nothing of this.
C4_AcceptedAfterPeriod ==
    [][ (/\ lastOp' = "wrapper"
         /\ Len(message_requests) >= max_requests
         /\ now - message_requests[1] > period)
          => /\ lastCall'.result \in FuncOutcomes
             /\ func_calls' = Append(func_calls, now)
             /\ message_requests' # <<>>
             /\ message_requests'[Len(message_requests')] = now
             /\ \A i \in DOMAIN message_requests' :
                    now - message_requests'[i] < period
      ]_vars

\* C4 witness: an accepted call that found a full window whose oldest entry
\* was more than period old, right after a refused attempt.
C4_Witness ==
    /\ lastOp = "wrapper"
    /\ Accepted
    /\ lastCall.afterRejection
    /\ Len(lastCall.before) = max_requests
    /\ lastCall.at - lastCall.before[1] > period

\* --- fetch_articles, as called by lambda_handler on a dict event

Ran == lastOp = "lambda_handler" /\ event.is_dict
SearchTerm == EventGet(event, "search_term", DefaultSearchTerm)
NoApiKey == env.GUARDIAN_API_KEY \in {NoneValue, ""}
NoQueueUrl == env.SQS_QUEUE_URL \in {NoneValue, ""}
BlankTerm ==
    /\ SearchTerm.t = "str"
    /\ \A i \in DOMAIN SearchTerm.s : SearchTerm.s[i] \in Whitespace
GoodTerm ==
    /\ SearchTerm.t = "str"
    /\ \E i \in DOMAIN SearchTerm.s : SearchTerm.s[i] \notin Whitespace
PreconditionsHold == ~NoApiKey /\ GoodTerm /\ ~NoQueueUrl

\* C5: with a str search term, whenever the API key is missing, the term is
\* empty or blank, or the queue URL is missing, fetch_articles raises the
\* error of the first failing check in the order key, term, queue, and no
\* HTTP request is issued and no message is sent.
C5_PreconditionsInOrder ==
    (Ran /\ SearchTerm.t = "str" /\ (NoApiKey \/ BlankTerm \/ NoQueueUrl))
        => /\ fetched.outcome = "raised"
           /\ fetched.exc = (IF NoApiKey THEN MissingApiKey
                             ELSE IF BlankTerm THEN EmptySearchTerm
                             ELSE MissingQueueUrl)
           /\ fetched.requests = <<>>
           /\ fetched.attempted = <<>>

\* C5 witness: all three checks would fail, and the API key error is raised.
C5_Witness ==
    /\ Ran
    /\ NoApiKey /\ BlankTerm /\ NoQueueUrl
    /\ SearchTerm.s # <<>>
    /\ fetched.exc = MissingApiKey

\* requests.get or raise_for_status raised a requests exception
TransportFailure ==
    /\ api.stage \in {"get", "raise_for_status"}
    /\ api.exc.cls \in RequestExceptionClasses

\* C6: a transport failure of the API request is raised again unchanged by
\* fetch_articles, no message being sent, and lambda_handler answers 500
\* with the original message as the body's "error".
C6_TransportErrorReraised ==
    (Ran /\ PreconditionsHold /\ TransportFailure)
        => /\ fetched.outcome = "raised"
           /\ fetched.exc = api.exc
           /\ Len(fetched.requests) = 1
           /\ fetched.attempted = <<>>
           /\ ~response.raised
           /\ response.statusCode = 500
           /\ response.body.kind = "object"
           /\ response.body.error = api.exc.msg

\* C6 witness: a timeout answered with 500.
C6_Witness ==
    /\ Ran
    /\ PreconditionsHold
    /\ api.stage = "get" /\ api.exc.cls = "Timeout"
    /\ response.statusCode = 500

\* The records of the response that have the three required keys.
Kept == IF api.stage = "ok" /\ api.body.shape = "results"
        THEN SelectSeq(api.body.results,
                       LAMBDA a : RequiredFields \subseteq a.keys)
        ELSE <<>>

\* A kept record whose optional part has the wrong shape.
WrongShaped(a) == a.fields = "null" \/ a.bodyText \in {"null", "list"}
Raising(a) == a.fields = "null" \/ a.bodyText = "null"

\* A failure that is no transport failure happens in the try block: the
\* request raises something else, the body received is no JSON and the parse
\* fails, the body has not the shape l.57 reads, a kept record makes the
\* transform raise, or a send fails.
OtherFailure ==
    \/ api.stage \in {"get", "raise_for_status"} /\ ~TransportFailure
    \/ api.stage = "json"
    \/ api.stage = "ok"
         /\ api.body.shape \in {"not_dict", "response_null", "results_null"}
    \/ \E i \in DOMAIN Kept : Raising(Kept[i])
    \/ sendFailAt \in 1..Len(Kept)

\* C7: a failure in the try block that is no transport failure does not
\* leave fetch_articles: it returns the empty list and lambda_handler
\* answers 200 with an empty array, as for zero results.
C7_OtherFailuresSwallowed ==
    (Ran /\ PreconditionsHold /\ OtherFailure)
        => /\ fetched.outcome = "returned"
           /\ fetched.value = <<>>
           /\ response = Response(200, [kind |-> "array", items |-> <<>>,
                                        error |-> ""])

\* The messages are those of the articles, one for one and in order.
OneSendPerArticle(msgs, list) ==
    /\ Len(msgs) = Len(list)
    /\ \A i \in DOMAIN msgs :
          /\ msgs[i].MessageBody[1][2] = list[i].webPublicationDate
          /\ msgs[i].MessageBody[2][2] = list[i].webTitle
          /\ msgs[i].MessageBody[3][2] = list[i].webUrl
          /\ msgs[i].MessageBody[4][2] = list[i].content_preview

\* C8 as stated: in every invocation that returns, the returned list is the
\* list of the articles sent or attempted, also when a send fails.
C8_ReturnedEqualsAttempted ==
    (Ran /\ fetched.outcome = "returned")
        => OneSendPerArticle(fetched.attempted, fetched.value)

\* C8 amended: in every invocation that returns, if no send failed the
\* returned list is the list of the articles sent, one for one and in
\* order; if a send failed the returned list is empty, whatever was sent.
C8_ReturnedEqualsSentUnlessFailed ==
    (Ran /\ fetched.outcome = "returned")
        => IF fetched.sent = fetched.attempted
           THEN OneSendPerArticle(fetched.sent, fetched.value)
           ELSE fetched.value = <<>>

\* C8 witness: two articles returned, two messages sent.
C8_Witness ==
    /\ Ran
    /\ fetched.outcome = "returned"
    /\ Len(fetched.value) = 2
    /\ Len(fetched.sent) = 2
    /\ fetched.value[1] # fetched.value[2]

\* What C9 and C10 say the output for one kept record is: the first
\* PreviewLimit characters of fields.bodyText, the empty string when that
\* is absent or has the wrong shape.
ClaimedArticle(a) ==
    [webPublicationDate |-> <<"webPublicationDate", a.id>>,
     webTitle           |-> <<"webTitle", a.id>>,
     webUrl             |-> <<"webUrl", a.id>>,
     content_preview    |->
        IF a.fields = "dict" /\ a.bodyText = "str"
        THEN [t |-> "str",
              v |-> [i \in 1..Min(Len(a.body), PreviewLimit) |-> a.body[i]]]
        ELSE [t |-> "str", v |-> <<>>]]

\* C9: for every result list the API returns (the sends succeeding), the
\* output holds exactly the records with the three required keys, in input
\* order, each with its content_preview of at most PreviewLimit characters.
C9_OutputIsKeptRecords ==
    (/\ Ran /\ PreconditionsHold
     /\ api.stage = "ok" /\ api.body.shape = "results"
     /\ sendFailAt \notin 1..Len(Kept))
        => /\ fetched.outcome = "returned"
           /\ Len(fetched.value) = Len(Kept)
           /\ \A i \in DOMAIN Kept :
                 /\ fetched.value[i] = ClaimedArticle(Kept[i])
                 /\ Len(fetched.value[i].content_preview.v) <= PreviewLimit

\* C10: a record with the three required keys and a wrong-shaped optional
\* part is output with an empty content_preview, and the other records of
\* the response are output and published with it.
C10_WrongShapeTreatedAsAbsent ==
    (/\ Ran /\ PreconditionsHold
     /\ api.stage = "ok" /\ api.body.shape = "results"
     /\ sendFailAt \notin 1..Len(Kept)
     /\ \E i \in DOMAIN Kept : WrongShaped(Kept[i]))
        => /\ fetched.outcome = "returned"
           /\ Len(fetched.value) = Len(Kept)
           /\ Len(fetched.sent) = Len(Kept)
           /\ \A i \in DOMAIN Kept :
                 WrongShaped(Kept[i])
                    => fetched.value[i].content_preview
                           = [t |-> "str", v |-> <<>>]


\* C11: lambda_handler never raises: whatever the event and whatever
\* fetch_articles does, it returns 200 with a JSON array or 500 with a JSON
\* object holding an "error" string.
C11_HandlerNeverRaises ==
    (lastOp = "lambda_handler")
        => /\ ~response.raised
           /\ \/ response.statusCode = 200 /\ response.body.kind = "array"
              \/ response.statusCode = 500 /\ response.body.kind = "object"

\* C12: when the API request and every send succeed, there is exactly one
\* send per returned article, in list order, its body the JSON text of that
\* article, to the configured queue; one well-formed article gives one send.
C12_OneMessagePerArticle ==
    (/\ Ran /\ PreconditionsHold
     /\ api.stage = "ok"
     /\ sendFailAt \notin 1..Len(Kept))
        => /\ fetched.outcome = "returned"
           /\ fetched.sent = fetched.attempted
           /\ Len(fetched.sent) = Len(fetched.value)
           /\ \A i \in DOMAIN fetched.sent :
                 /\ fetched.sent[i].QueueUrl = env.SQS_QUEUE_URL
                 /\ fetched.sent[i].MessageBody =
                       << <<"webPublicationDate",
                            fetched.value[i].webPublicationDate>>,
                          <<"webTitle", fetched.value[i].webTitle>>,
                          <<"webUrl", fetched.value[i].webUrl>>,
                          <<"content_preview",
                            fetched.value[i].content_preview>> >>
           /\ (api.body.shape = "results" /\ api.body.results = <<WellFormed>>)
                 => Len(fetched.sent) = 1

\* C12 witness: one well-formed article in the response, one message sent.
C12_Witness ==
    /\ Ran
    /\ api.stage = "ok"
    /\ api.body.results = <<WellFormed>>
    /\ Len(fetched.value) = 1
    /\ Len(fetched.sent) = 1

\* The response carries no results: the list is empty, or the key
\* "response" or the key "results" is absent.
NoResults ==
    /\ api.stage = "ok"
    /\ \/ api.body.shape \in {"no_response", "no_results"}
       \/ api.body.shape = "results" /\ api.body.results = <<>>

\* C13: when the response carries no results, fetch_articles returns the
\* empty list, nothing is raised (it reports no error) and nothing is sent.
C13_NoResultsIsEmptyList ==
    (Ran /\ PreconditionsHold /\ NoResults)
        => /\ fetched.outcome = "returned"
           /\ fetched.value = <<>>
           /\ fetched.logged = NoExc
           /\ fetched.attempted = <<>>
           /\ response.statusCode = 200

\* C13 witness: a body without the key "response", answered with [].
C13_Witness ==
    /\ Ran
    /\ PreconditionsHold
    /\ api.stage = "ok"
    /\ api.body.shape = "no_response"
    /\ fetched.outcome = "returned"

\* More calls of the wrapped func than max_requests lie in one window.
Overshoot ==
    \E t \in 0..MaxTime : Cardinality(CallsWithin(t, period)) > max_requests

\* C14: the statements of wrapper are separate steps under no lock: two
\* calls whose steps interleave can both be accepted although the limit is
\* reached, so that more than max_requests calls of the wrapped func fall
\* in one period; this happens only in runs in which two calls overlap.
C14_OvershootOnlyWhenInterleaved == Overshoot => interleaved

\* C14 witness: more than max_requests accepted calls within one period,
\* both threads back at rest.
C14_Witness ==
    /\ Overshoot
    /\ \A t \in Threads : threads[t].pc = "idle"

\* The calls of op's func within period before the latest call.
OwnCallsBefore(op) ==
    {i \in DOMAIN op_calls[op] : lastOpCall.at - op_calls[op][i] < period}

\* C15: each decorated function has a window of its own, however the
\* decorators were applied: at most max_requests of its calls are accepted
\* within a period, and a call through it is refused only when
\* max_requests calls through that same function lie within the period.
C15_WindowPerDecoratedOp ==
    /\ \A op \in Ops : \A t \in 0..MaxTime :
          Cardinality({i \in DOMAIN op_calls[op] :
                          t <= op_calls[op][i] /\ op_calls[op][i] < t + period})
              <= max_requests
    /\ (lastOp = "op" /\ lastOpCall.result = "rate_limited")
          => Cardinality(OwnCallsBefore(lastOpCall.op)) >= max_requests

\* C16: an invocation issues at most one HTTP request, and only when the
\* three precondition checks passed; a message is sent or attempted only
\* when that one request succeeded and its body held a results list.
C16_OneRequestBeforeSends ==
    Ran => /\ Len(fetched.requests) <= 1
           /\ (fetched.requests # <<>>) => PreconditionsHold
           /\ (fetched.attempted # <<>>)
                 => /\ Len(fetched.requests) = 1
                    /\ api.stage = "ok"
                    /\ api.body.shape = "results"
           /\ Len(fetched.sent) <= Len(fetched.attempted)

\* C16 witness: the request failed and was made once.
C16_Witness ==
    /\ Ran
    /\ api.stage = "get"
    /\ Len(fetched.requests) = 1
    /\ fetched.attempted = <<>>

\* C17: when the send of the k-th normalized article fails, the first k-1
\* messages are sent and stay sent, the k-th was attempted once, and no send
\* is attempted for a later article.
C17_PartialPublishStays ==
    (/\ Ran /\ PreconditionsHold
     /\ api.stage = "ok" /\ api.body.shape = "results"
     /\ \A i \in DOMAIN Kept : ~Raising(Kept[i])
     /\ sendFailAt \in 1..Len(Kept))
        => /\ Len(fetched.attempted) = sendFailAt
           /\ Len(fetched.sent) = sendFailAt - 1
           /\ \A i \in 1..sendFailAt :
                 fetched.attempted[i].MessageBody[2][2]
                     = <<"webTitle", Kept[i].id>>
           /\ \A i \in 1..(sendFailAt - 1) :
                 fetched.sent[i] = fetched.attempted[i]

\* C17 witness: the first of two sends failed; nothing was sent and the
\* second article was not attempted.
C17_Witness ==
    /\ Ran
    /\ sendFailAt = 1
    /\ Len(Kept) = 2
    /\ Len(fetched.attempted) = 1
    /\ fetched.sent = <<>>

\* How often time t occurs in a sequence of times.
Count(seq, t) == Cardinality({i \in DOMAIN seq : seq[i] = t})

\* C18: an accepted call is recorded in the window whether the wrapped func
\* returns or raises, and its outcome is what the caller gets: every
\* invocation of the wrapped func less than period ago holds a slot of the
\* window.
C18_AcceptedCallHoldsSlot ==
    /\ \A t \in 0..MaxTime :
          (now - t < period)
              => Count(message_requests, t) = Count(func_calls, t)
    /\ (lastOp = "wrapper" /\ lastCall.result # "rate_limited")
          => /\ lastCall.result \in FuncOutcomes
             /\ message_requests # <<>>
             /\ message_requests[Len(message_requests)] = lastCall.at

\* C18 witness: the wrapped func raised, time has passed, the call is less
\* than period old and the window is full because of it.
C18_Witness ==
    /\ lastCall.result = "raised"
    /\ now > lastCall.at
    /\ now - lastCall.at < period
    /\ Len(message_requests) = max_requests
    /\ Count(message_requests, lastCall.at) > 0

=============================================================================
